---------------------------- MODULE Spec2Model ----------------------------
(***************************************************************************)
(* The interior-design assistant: the client facade (callApi and the three *)
(* exported operations of src/services/geminiService.ts), the edge         *)
(* function `handler` of src/api/generate.ts with the three provider       *)
(* operations it routes to, and the generative-AI provider as an           *)
(* environment that resolves or rejects each generateContent call.         *)
(*                                                                         *)
(* One request is in flight at a time (every invocation is independent and *)
(* stateless); the handler is cut at its awaits: request.json() and        *)
(* ai.models.generateContent().                                            *)
(***************************************************************************)
EXTENDS Integers, Sequences, FiniteSets, TLC

-----------------------------------------------------------------------------
(* Bounds of the model *)

\* provider text lengths run up to SubstringLimit + MaxTextOver characters
MaxTextOver == 2
\* content parts per candidate
MaxParts == 2
\* safety ratings per prompt feedback
MaxRatings == 2
\* room width and length range over -1..MaxDim
MaxDim == 2

(* Program constants *)

\* textResponse.substring(0, 100)
SubstringLimit == 100

-----------------------------------------------------------------------------
(* JavaScript values: undefined, null, strings, numbers, arrays, objects.  *)
(* Each kind has its own field name so that values of different kinds are  *)
(* records over different domains.                                         *)

Undefined == [t |-> "undefined"]
Null == [t |-> "null"]
Str(s) == [t |-> "str", s |-> s]
Num(n) == [t |-> "num", n |-> n]
Arr(a) == [t |-> "arr", a |-> a]
Obj(o) == [t |-> "obj", o |-> o]
EmptyObj == [t |-> "obj", o |-> <<>>]

\* ToBoolean: undefined, null, "" and 0 are falsy; arrays and objects are truthy
Truthy(v) ==
    CASE v.t = "undefined" -> FALSE
      [] v.t = "null" -> FALSE
      [] v.t = "str" -> v.s # ""
      [] v.t = "num" -> v.n # 0
      [] OTHER -> TRUE

\* v.k does not throw: reading a property of undefined or null is a TypeError
CanGet(v) == v.t \notin {"undefined", "null"}

\* v.k for a v that is neither undefined nor null
Get(v, k) ==
    IF v.t = "obj" /\ k \in DOMAIN v.o THEN v.o[k] ELSE Undefined

\* `${v}` in a template literal
ToStr(v) ==
    CASE v.t = "undefined" -> "undefined"
      [] v.t = "null" -> "null"
      [] v.t = "str" -> v.s
      [] v.t = "num" -> ToString(v.n)
      [] v.t = "arr" -> "[array]"
      [] OTHER -> "[object Object]"

\* a || b
OrElse(a, b) == IF Truthy(a) THEN a ELSE b

\* String.prototype.substring(from, to) for 0 <= from <= to
Substring(s, from, to) ==
    SubSeq(s, from + 1, IF to < Len(s) THEN to ELSE Len(s))

\* String.prototype.includes
Includes(s, sub) ==
    \E i \in 1..(Len(s) - Len(sub) + 1) : SubSeq(s, i, i + Len(sub) - 1) = sub

IsSpace(c) == c \in {" ", "\n", "\t"}

\* String.prototype.trim
RECURSIVE Trim(_)
Trim(s) ==
    IF Len(s) = 0 THEN s
    ELSE IF IsSpace(SubSeq(s, 1, 1)) THEN Trim(SubSeq(s, 2, Len(s)))
    ELSE IF IsSpace(SubSeq(s, Len(s), Len(s))) THEN Trim(SubSeq(s, 1, Len(s) - 1))
    ELSE s

\* Array.prototype.join over an array of strings
RECURSIVE Join(_, _)
Join(strs, sep) ==
    IF Len(strs) = 0 THEN ""
    ELSE IF Len(strs) = 1 THEN strs[1]
    ELSE strs[1] \o sep \o Join(Tail(strs), sep)

\* what a function call ends in: a returned value or a thrown one
Return(v) == [kind |-> "return", value |-> v]
Throw(isError, message) == [kind |-> "throw", isError |-> isError, message |-> message]
TypeErrorRead(of, prop) ==
    Throw(TRUE, "Cannot read properties of " \o of \o " (reading '" \o prop \o "')")

-----------------------------------------------------------------------------
(* JSON texts the provider can answer with, and JSON.parse on them.  The   *)
(* parser is the table of these texts: a text outside it has no parse.     *)

Palette(c, a) == Obj([color |-> Str(c), accent |-> Str(a)])
WallColor == Palette("Sage", "Clay")
Item == Obj([name |-> Str("Sofa"), placement |-> Str("by the window")])
Cost == Obj([min |-> Num(1), max |-> Num(2), currency |-> Str("USD")])
ThreePalettes == Arr(<<Palette("Sand", "Teal"), Palette("Mint", "Navy"), Palette("Rose", "Gold")>>)
TwoPalettes == Arr(<<Palette("Sand", "Teal"), Palette("Mint", "Navy")>>)

FullPlan ==
    Obj([analysis |-> Str("bright"), wallColor |-> WallColor, lighting |-> Str("lamp"),
         flooring |-> Str("oak"), furnitureSuggestions |-> Arr(<<Item>>),
         estimatedCost |-> Cost, alternativePalettes |-> ThreePalettes])
\* the provider ignored `required`: one of the three validated fields is absent
PlanNoFurniture ==
    Obj([analysis |-> Str("bright"), wallColor |-> WallColor,
         estimatedCost |-> Cost, alternativePalettes |-> ThreePalettes])
PlanNoCost ==
    Obj([wallColor |-> WallColor, furnitureSuggestions |-> Arr(<<Item>>),
         alternativePalettes |-> ThreePalettes])
PlanNoPalettes ==
    Obj([wallColor |-> WallColor, furnitureSuggestions |-> Arr(<<Item>>),
         estimatedCost |-> Cost])
\* a validated field is present and null, or present and zero
PlanNullCost ==
    Obj([furnitureSuggestions |-> Arr(<<Item>>), estimatedCost |-> Null,
         alternativePalettes |-> ThreePalettes])
PlanZeroCost ==
    Obj([furnitureSuggestions |-> Arr(<<Item>>), estimatedCost |-> Num(0),
         alternativePalettes |-> ThreePalettes])
\* the three validated fields are present, wallColor is not; the lists are empty
PlanNoWallColor ==
    Obj([furnitureSuggestions |-> Arr(<<>>), estimatedCost |-> Cost,
         alternativePalettes |-> Arr(<<>>)])

ItemText == "{\"name\":\"Sofa\",\"placement\":\"by the window\"}"
CostText == "{\"min\":1,\"max\":2,\"currency\":\"USD\"}"
WallColorText == "{\"color\":\"Sage\",\"accent\":\"Clay\"}"
TwoPalettesText ==
    "[{\"color\":\"Sand\",\"accent\":\"Teal\"},{\"color\":\"Mint\",\"accent\":\"Navy\"}]"
ThreePalettesText ==
    "[{\"color\":\"Sand\",\"accent\":\"Teal\"},{\"color\":\"Mint\",\"accent\":\"Navy\"},"
    \o "{\"color\":\"Rose\",\"accent\":\"Gold\"}]"

ParseTable ==
    << [text |-> "null", value |-> Null],
       [text |-> "7", value |-> Num(7)],
       [text |-> "[]", value |-> Arr(<<>>)],
       [text |-> "{}", value |-> EmptyObj],
       [text |-> TwoPalettesText, value |-> TwoPalettes],
       [text |-> ThreePalettesText, value |-> ThreePalettes],
       [text |-> "{\"analysis\":\"bright\",\"wallColor\":" \o WallColorText
                 \o ",\"lighting\":\"lamp\",\"flooring\":\"oak\",\"furnitureSuggestions\":["
                 \o ItemText \o "],\"estimatedCost\":" \o CostText
                 \o ",\"alternativePalettes\":" \o ThreePalettesText \o "}",
        value |-> FullPlan],
       [text |-> "{\"analysis\":\"bright\",\"wallColor\":" \o WallColorText
                 \o ",\"estimatedCost\":" \o CostText
                 \o ",\"alternativePalettes\":" \o ThreePalettesText \o "}",
        value |-> PlanNoFurniture],
       [text |-> "{\"wallColor\":" \o WallColorText \o ",\"furnitureSuggestions\":["
                 \o ItemText \o "],\"alternativePalettes\":" \o ThreePalettesText \o "}",
        value |-> PlanNoCost],
       [text |-> "{\"wallColor\":" \o WallColorText \o ",\"furnitureSuggestions\":["
                 \o ItemText \o "],\"estimatedCost\":" \o CostText \o "}",
        value |-> PlanNoPalettes],
       [text |-> "{\"furnitureSuggestions\":[" \o ItemText
                 \o "],\"estimatedCost\":null,\"alternativePalettes\":"
                 \o ThreePalettesText \o "}",
        value |-> PlanNullCost],
       [text |-> "{\"furnitureSuggestions\":[" \o ItemText
                 \o "],\"estimatedCost\":0,\"alternativePalettes\":"
                 \o ThreePalettesText \o "}",
        value |-> PlanZeroCost],
       [text |-> "{\"furnitureSuggestions\":[],\"estimatedCost\":" \o CostText
                 \o ",\"alternativePalettes\":[]}",
        value |-> PlanNoWallColor] >>

ParsableTexts == {ParseTable[i].text : i \in DOMAIN ParseTable}
\* texts that JSON.parse rejects
UnparsableTexts == {"", "Sorry, I cannot help with that.", "{\"furnitureSuggestions\":"}
\* a parsable text as the provider may pad it: trim() removes the padding
PaddedTexts == {" {} \n", "\nnull"}

\* JSON.parse(text): the parsed value, or a SyntaxError (the engine's wording
\* of the SyntaxError message is not reproduced)
JSONParse(text) ==
    IF text \in ParsableTexts
    THEN Return((CHOOSE e \in {ParseTable[i] : i \in DOMAIN ParseTable} : e.text = text).value)
    ELSE IF text = ""
    THEN Throw(TRUE, "Unexpected end of JSON input")
    ELSE Throw(TRUE, "Unexpected token in JSON: " \o text)

-----------------------------------------------------------------------------
(* generateDesignIdeas *)

DimensionSentence(width, unitName, length) ==
    " The user has specified the room is approximately " \o
    ToStr(width) \o
    " " \o
    unitName \o
    " wide by " \o
    ToStr(length) \o
    " " \o
    unitName \o
    " long. Please ensure your furniture suggestions and layout " \o
    "advice are appropriately scaled for a room of this size and " \o
    "explicitly mention this in your analysis."

\* the dimension text decided by the width alone
DimensionTextWidthOnly(dimensions) ==
    IF Truthy(dimensions) /\ Truthy(Get(dimensions, "width"))
    THEN LET unitName == IF Get(dimensions, "unit") = Str("ft") THEN "feet" ELSE "meters"
         IN  DimensionSentence(Get(dimensions, "width"), unitName, Get(dimensions, "length"))
    ELSE ""

\* let dimensionText = ''; if (dimensions && dimensions.width && dimensions.length) ...
DimensionText(dimensions) ==
    IF /\ Truthy(dimensions)
       /\ Truthy(Get(dimensions, "width"))
       /\ Truthy(Get(dimensions, "length"))
    THEN LET unitName == IF Get(dimensions, "unit") = Str("ft") THEN "feet" ELSE "meters"
         IN  DimensionSentence(Get(dimensions, "width"), unitName, Get(dimensions, "length"))
    ELSE ""

DesignIdeasText(roomType, style, dimensionText) ==
    "You are a world-class AI interior designer with a keen eye " \o
    "for detail and aesthetics. Analyze the provided room image, " \o
    "which is a " \o
    ToStr(roomType) \o
    ", and generate a complete design makeover plan in a " \o
    "friendly and inspiring tone. The user wants a \"" \o
    ToStr(style) \o
    "\" style. Your recommendations must be appropriate for a " \o
    ToStr(roomType) \o
    ". Your goal is to create a truly inspiring and practical " \o
    "makeover plan.\n    " \o
    dimensionText \o
    "\n    Your tasks are:\n    1. Briefly analyze the current " \o
    "room's strengths and weaknesses.\n    2. Suggest a full " \o
    "makeover based on the selected style, keeping the provided " \o
    "dimensions in mind if available.\n    3. Output specific " \o
    "ideas for a primary wall color palette, flooring, and " \o
    "lighting.\n    4. Recommend 3-5 key furniture or decor items " \o
    "with detailed descriptions and placement suggestions. " \o
    "Ensure items are scaled correctly for the room. For each " \o
    "recommended item, you must also provide a `modelUrl`, which " \o
    "should be a publicly accessible URL to a 3D model of the " \o
    "item, preferably in GLTF or OBJ format. If a real model " \o
    "cannot be found, provide a realistic placeholder URL (e.g., " \o
    "'https://models.example.com/modern_chair.gltf').\n    5. " \o
    "Provide a realistic, estimated total budget range (min and " \o
    "max) for the complete makeover. Also, include an estimated " \o
    "price for each recommended furniture item. All monetary " \o
    "values should be in USD.\n    6. Also provide exactly 3 " \o
    "alternative color palettes (primary and accent) that would " \o
    "offer a different mood while still fitting the requested " \o
    "style.\n    7. Provide a 'Design Rationale' explaining why " \o
    "your suggestions create a cohesive and high-quality '" \o
    ToStr(style) \o
    "' design, touching on principles like balance, harmony, or " \o
    "focal points.\n\n    Provide the output in JSON format " \o
    "according to the provided schema. Ensure the descriptions " \o
    "are vivid and helpful."

\* the call in the handler's switch, up to the await of generateContent:
\* the request handed to the provider, or what is thrown before it
GenerateDesignIdeasCall(payload) ==
    IF ~CanGet(payload) THEN TypeErrorRead(ToStr(payload), "base64Image")
    ELSE Return([model |-> "gemini-2.5-flash",
                 image |-> Get(payload, "base64Image"),
                 text |-> DesignIdeasText(Get(payload, "roomType"), Get(payload, "style"),
                                          DimensionText(Get(payload, "dimensions")))])

MissingFieldsMessage ==
    "AI response is missing required fields like 'furnitureSuggestions', "
    \o "'estimatedCost', or 'alternativePalettes'."

\* the rest of generateDesignIdeas, from the provider's response on
GenerateDesignIdeasReturn(response) ==
    LET text == Get(response, "text") IN
    IF ~CanGet(text) THEN TypeErrorRead(ToStr(text), "trim")
    ELSE LET parsed == JSONParse(Trim(text.s)) IN
         IF parsed.kind = "throw" THEN parsed
         ELSE LET parsedJson == parsed.value IN
              IF ~CanGet(parsedJson)
              THEN TypeErrorRead(ToStr(parsedJson), "furnitureSuggestions")
              ELSE IF \/ ~Truthy(Get(parsedJson, "furnitureSuggestions"))
                      \/ ~Truthy(Get(parsedJson, "estimatedCost"))
                      \/ ~Truthy(Get(parsedJson, "alternativePalettes"))
              THEN Throw(TRUE, MissingFieldsMessage)
              ELSE Return(parsedJson)

-----------------------------------------------------------------------------
(* generateRedesignedImage *)

\* arr[i] of JavaScript, i from 0
Index(v, i) == IF v.t = "arr" /\ i < Len(v.a) THEN v.a[i + 1] ELSE Undefined

\* designPlan.furnitureSuggestions.map(f => `- ${f.name}: ${f.placement}`)
FurnitureLines(items) ==
    [i \in 1..Len(items) |->
        "- " \o ToStr(Get(items[i], "name")) \o ": " \o ToStr(Get(items[i], "placement"))]

RedesignText(roomType, style, primaryColor, accentColor, flooring, lighting, furnitureList) ==
    "Redesign this " \o
    ToStr(roomType) \o
    " in a photorealistic " \o
    ToStr(style) \o
    " style.\nIncorporate these elements:\n- Walls: " \o
    ToStr(primaryColor) \o
    " with " \o
    ToStr(accentColor) \o
    " accents.\n- Flooring: " \o
    ToStr(flooring) \o
    ".\n- Lighting: " \o
    ToStr(lighting) \o
    ".\n- Furniture:\n" \o
    furnitureList \o
    "\nCrucially, preserve the original room's structure, like " \o
    "walls, windows, and doors. Replace only the furnishings and " \o
    "decor.\nThe final output must be only the redesigned image, " \o
    "with no text."

GenerateRedesignedImageCall(payload) ==
    IF ~CanGet(payload) THEN TypeErrorRead(ToStr(payload), "designPlan")
    ELSE
    LET designPlan == Get(payload, "designPlan")
        newColors == Get(payload, "newColors")
        furniture == Get(designPlan, "furnitureSuggestions")
        wallColor == Get(designPlan, "wallColor")
        \* newColors?.color and newColors?.accent
        newColor == IF CanGet(newColors) THEN Get(newColors, "color") ELSE Undefined
        newAccent == IF CanGet(newColors) THEN Get(newColors, "accent") ELSE Undefined
    IN
    IF ~CanGet(designPlan)
    THEN TypeErrorRead(ToStr(designPlan), "furnitureSuggestions")
    ELSE IF ~CanGet(furniture)
    THEN TypeErrorRead(ToStr(furniture), "map")
    ELSE IF furniture.t # "arr"
    THEN Throw(TRUE, "designPlan.furnitureSuggestions.map is not a function")
    ELSE IF \E i \in 1..Len(furniture.a) : ~CanGet(furniture.a[i])
    THEN TypeErrorRead("null", "name")
    ELSE IF ~Truthy(newColor) /\ ~CanGet(wallColor)
    THEN TypeErrorRead(ToStr(wallColor), "color")
    ELSE IF ~Truthy(newAccent) /\ ~CanGet(wallColor)
    THEN TypeErrorRead(ToStr(wallColor), "accent")
    ELSE Return([model |-> "gemini-2.5-flash-image-preview",
                 image |-> Get(payload, "base64Image"),
                 text |-> RedesignText(Get(payload, "roomType"), Get(payload, "style"),
                                       OrElse(newColor, Get(wallColor, "color")),
                                       OrElse(newAccent, Get(wallColor, "accent")),
                                       Get(designPlan, "flooring"),
                                       Get(designPlan, "lighting"),
                                       Join(FurnitureLines(furniture.a), "\n"))])

EmptyResponseMessage ==
    "The AI returned an empty response, which could be due to a safety filter "
    \o "or a temporary issue."
NoImageMessage ==
    "The AI did not return a redesigned image. The response was valid but "
    \o "contained no image data."
BlockedMessage(blockReason) ==
    "Request was blocked due to: " \o ToStr(blockReason) \o "."
RatingsMessage(safetyRatings) ==
    "Request may have been blocked by safety filters. Ratings: " \o ToStr(safetyRatings)
StoppedMessage(finishReason) ==
    "Image generation stopped unexpectedly. Reason: " \o ToStr(finishReason)
\* the text-response message without the substring(0, 100)
TextResponseMessageUncut(textResponse) ==
    "The AI provided a text response instead of an image. This can happen if the "
    \o "request is not possible to fulfill. AI response: \""
    \o textResponse \o "...\""
TextResponseMessage(textResponse) ==
    "The AI provided a text response instead of an image. This can happen if the "
    \o "request is not possible to fulfill. AI response: \""
    \o Substring(textResponse, 0, SubstringLimit) \o "...\""

\* safetyRatings?.map(r => `${r.category}: ${r.probability}`).join(', ')
JoinedRatings(ratings) ==
    IF ~CanGet(ratings) THEN Undefined
    ELSE Str(Join([i \in 1..Len(ratings.a) |->
                      ToStr(Get(ratings.a[i], "category")) \o ": "
                      \o ToStr(Get(ratings.a[i], "probability"))], ", "))

\* the no-candidate reason with the safety ratings tested before the block reason
NoCandidateReasonRatingsFirst(response) ==
    LET promptFeedback == Get(response, "promptFeedback")
        blockReason == IF CanGet(promptFeedback)
                       THEN Get(promptFeedback, "blockReason") ELSE Undefined
        safetyRatings == IF CanGet(promptFeedback)
                         THEN JoinedRatings(Get(promptFeedback, "safetyRatings"))
                         ELSE Undefined
    IN  IF Truthy(safetyRatings) THEN RatingsMessage(safetyRatings)
        ELSE IF Truthy(blockReason) THEN BlockedMessage(blockReason)
        ELSE EmptyResponseMessage

\* if (!candidate) { ... throw new Error(reason); }
NoCandidateReason(response) ==
    LET promptFeedback == Get(response, "promptFeedback")
        blockReason == IF CanGet(promptFeedback)
                       THEN Get(promptFeedback, "blockReason") ELSE Undefined
        safetyRatings == IF CanGet(promptFeedback)
                         THEN JoinedRatings(Get(promptFeedback, "safetyRatings"))
                         ELSE Undefined
    IN  IF Truthy(blockReason) THEN BlockedMessage(blockReason)
        ELSE IF Truthy(safetyRatings) THEN RatingsMessage(safetyRatings)
        ELSE EmptyResponseMessage

\* for (const part of candidate.content.parts)
\*     if (part.inlineData && part.inlineData.data) return part.inlineData.data;
RECURSIVE FirstInlineData(_)
FirstInlineData(parts) ==
    IF Len(parts) = 0 THEN Undefined
    ELSE LET inlineData == Get(Head(parts), "inlineData") IN
         IF Truthy(inlineData) /\ Truthy(Get(inlineData, "data"))
         THEN Get(inlineData, "data")
         ELSE FirstInlineData(Tail(parts))

\* the content scan keeping the last part with inline data, not the first
ScanContentLast(candidate) ==
    LET content == Get(candidate, "content")
        parts == Get(content, "parts").a
        found == {i \in 1..Len(parts) :
                     /\ Truthy(Get(parts[i], "inlineData"))
                     /\ Truthy(Get(Get(parts[i], "inlineData"), "data"))}
    IN  IF Truthy(content) /\ Truthy(Get(content, "parts")) /\ found # {}
        THEN Get(Get(parts[CHOOSE i \in found : \A j \in found : j <= i], "inlineData"),
                 "data")
        ELSE Undefined

\* the content scan: the data returned, or Undefined when the loop ends
ScanContent(candidate) ==
    LET content == Get(candidate, "content") IN
    IF Truthy(content) /\ Truthy(Get(content, "parts"))
    THEN FirstInlineData(Get(content, "parts").a)
    ELSE Undefined

\* candidate.finishReason && candidate.finishReason !== 'STOP'
StoppedUnexpectedly(candidate) ==
    /\ Truthy(Get(candidate, "finishReason"))
    /\ Get(candidate, "finishReason") # Str("STOP")

\* generateRedesignedImage with the content scan moved before the
\* finish-reason check: the ordering the decision sequence must not have
GenerateRedesignedImageReturnScanFirst(response) ==
    LET candidates == Get(response, "candidates")
        candidate == IF CanGet(candidates) THEN Index(candidates, 0) ELSE Undefined
        textResponse == Get(response, "text")
    IN
    IF ~Truthy(candidate) THEN Throw(TRUE, NoCandidateReason(response))
    ELSE IF ScanContent(candidate) # Undefined THEN Return(ScanContent(candidate))
    ELSE IF StoppedUnexpectedly(candidate)
    THEN Throw(TRUE, StoppedMessage(Get(candidate, "finishReason")))
    ELSE IF Truthy(textResponse) THEN Throw(TRUE, TextResponseMessage(textResponse.s))
    ELSE Throw(TRUE, NoImageMessage)

\* the rest of generateRedesignedImage, from the provider's response on
GenerateRedesignedImageReturn(response) ==
    LET candidates == Get(response, "candidates")
        candidate == IF CanGet(candidates) THEN Index(candidates, 0) ELSE Undefined
        textResponse == Get(response, "text")
    IN
    IF ~Truthy(candidate) THEN Throw(TRUE, NoCandidateReason(response))
    ELSE IF StoppedUnexpectedly(candidate)
    THEN Throw(TRUE, StoppedMessage(Get(candidate, "finishReason")))
    ELSE IF ScanContent(candidate) # Undefined THEN Return(ScanContent(candidate))
    ELSE IF Truthy(textResponse) THEN Throw(TRUE, TextResponseMessage(textResponse.s))
    ELSE Throw(TRUE, NoImageMessage)

-----------------------------------------------------------------------------
(* generateRedesignedImage as written for the caller's side, where the    *)
(* provider is called without the handler in between                       *)

\* String.prototype.toLowerCase, letter by letter
LowerCase(c) ==
    CASE c = "A" -> "a" [] c = "B" -> "b" [] c = "C" -> "c" [] c = "D" -> "d"
      [] c = "E" -> "e" [] c = "F" -> "f" [] c = "G" -> "g" [] c = "H" -> "h"
      [] c = "I" -> "i" [] c = "J" -> "j" [] c = "K" -> "k" [] c = "L" -> "l"
      [] c = "M" -> "m" [] c = "N" -> "n" [] c = "O" -> "o" [] c = "P" -> "p"
      [] c = "Q" -> "q" [] c = "R" -> "r" [] c = "S" -> "s" [] c = "T" -> "t"
      [] c = "U" -> "u" [] c = "V" -> "v" [] c = "W" -> "w" [] c = "X" -> "x"
      [] c = "Y" -> "y" [] c = "Z" -> "z"
      [] OTHER -> c
RECURSIVE ToLowerCase(_)
ToLowerCase(s) ==
    IF Len(s) = 0 THEN s
    ELSE IF Len(s) = 1 THEN LowerCase(s)
    ELSE LET half == Len(s) \div 2
         IN  ToLowerCase(SubSeq(s, 1, half)) \o ToLowerCase(SubSeq(s, half + 1, Len(s)))

\* const isExterior = roomType.toLowerCase() === 'exterior'
IsExterior(roomType) == ToLowerCase(roomType.s) = "exterior"

\* designPlan.furnitureSuggestions.map(
\*     f => `- ${f.name} (${f.description}) placed at: ${f.placement}`)
DescribedFurnitureLines(items) ==
    [i \in 1..Len(items) |->
        "- " \o ToStr(Get(items[i], "name")) \o " (" \o ToStr(Get(items[i], "description"))
        \o ") placed at: " \o ToStr(Get(items[i], "placement"))]

ExteriorTextPrompt(style, primaryColor, accentColor, lighting, furnitureList) ==
    "\n      Photorealistically redesign this building's exterior " \o
    "in a \"" \o
    ToStr(style) \o
    "\" style.\n      \n      New Design Elements:\n      - Primary " \o
    "Color: \"" \o
    ToStr(primaryColor) \o
    "\" for the main walls.\n      - Accent Color: \"" \o
    ToStr(accentColor) \o
    "\" for trim, doors, and other features.\n      - Lighting: " \o
    "Implement \"" \o
    ToStr(lighting) \o
    "\". Render in bright, natural daylight.\n      - Landscaping " \o
    "& Decor: Remove all existing movable items and add the " \o
    "following:\n      " \o
    furnitureList \o
    "\n      \n      Key Rules:\n      1.  The final image must be " \o
    "indistinguishable from a real photograph.\n      2.  Do NOT " \o
    "alter the building's fixed architecture (windows, doors, " \o
    "roofline, etc.).\n      3.  Completely replace all original " \o
    "surfaces and movable objects with the new design.\n      "

RoomTextPrompt(style, primaryColor, accentColor, flooring, lighting, furnitureList) ==
    "\n      Photorealistically redesign this room in a \"" \o
    ToStr(style) \o
    "\" style.\n      \n      New Design Elements:\n      - Wall " \o
    "Color: \"" \o
    ToStr(primaryColor) \o
    "\" for main walls, with \"" \o
    ToStr(accentColor) \o
    "\" as an accent.\n      - Flooring: Replace the floor with \"" \o
    ToStr(flooring) \o
    "\".\n      - Lighting: Implement \"" \o
    ToStr(lighting) \o
    "\" for a natural, welcoming ambiance.\n      - Furniture: " \o
    "Remove all existing furniture. Add and arrange the " \o
    "following new pieces:\n      " \o
    furnitureList \o
    "\n  \n      Key Rules:\n      1.  The final image must be " \o
    "indistinguishable from a real photograph.\n      2.  Do NOT " \o
    "alter the room's fixed architecture (windows, doors, " \o
    "structural elements, etc.).\n      3.  Completely replace " \o
    "all original surfaces and furniture with the new design.\n   " \o
    "   "

\* the text part of the provider request: textPrompt.trim()
TextPrompt(designPlan, style, roomType, newColors) ==
    LET furnitureList ==
            Join(DescribedFurnitureLines(Get(designPlan, "furnitureSuggestions").a), "\n")
        wallColor == Get(designPlan, "wallColor")
        newColor == IF CanGet(newColors) THEN Get(newColors, "color") ELSE Undefined
        newAccent == IF CanGet(newColors) THEN Get(newColors, "accent") ELSE Undefined
        primaryColor == OrElse(newColor, Get(wallColor, "color"))
        accentColor == OrElse(newAccent, Get(wallColor, "accent"))
    IN  IF IsExterior(roomType)
        THEN Trim(ExteriorTextPrompt(style, primaryColor, accentColor,
                                     Get(designPlan, "lighting"), furnitureList))
        ELSE Trim(RoomTextPrompt(style, primaryColor, accentColor,
                                 Get(designPlan, "flooring"),
                                 Get(designPlan, "lighting"), furnitureList))

-----------------------------------------------------------------------------
(* generateMorePalettes *)

PalettesText(style, analysis, existingPalettes) ==
    "You are an AI color consultant for an interior design app. " \o
    "Based on the following design analysis for a \"" \o
    ToStr(style) \o
    "\" themed room, please generate exactly 3 new and distinct " \o
    "color palettes.\n\n    **Design Analysis:** " \o
    ToStr(analysis) \o
    "\n\n    **Important:** The user has already seen the " \o
    "following palettes, so please provide completely different " \o
    "options that suggest different moods (e.g., one calming, " \o
    "one energetic, one sophisticated):\n    " \o
    existingPalettes \o
    "\n    \n    Return the output as a JSON array of objects, " \o
    "where each object has a 'color' and 'accent' property, " \o
    "according to the provided schema."

GenerateMorePalettesCall(payload) ==
    IF ~CanGet(payload) THEN TypeErrorRead(ToStr(payload), "designPlan")
    ELSE
    LET designPlan == Get(payload, "designPlan")
        alternatives == Get(designPlan, "alternativePalettes")
        \* [designPlan.wallColor, ...designPlan.alternativePalettes]
        palettes == <<Get(designPlan, "wallColor")>> \o alternatives.a
    IN
    IF ~CanGet(designPlan)
    THEN TypeErrorRead(ToStr(designPlan), "wallColor")
    ELSE IF alternatives.t # "arr"
    THEN Throw(TRUE, "designPlan.alternativePalettes is not iterable")
    ELSE IF \E i \in 1..Len(palettes) : ~CanGet(palettes[i])
    THEN TypeErrorRead(ToStr(CHOOSE p \in {palettes[i] : i \in 1..Len(palettes)} : ~CanGet(p)),
                       "color")
    ELSE Return([model |-> "gemini-2.5-flash",
                 image |-> Undefined,
                 text |-> PalettesText(Get(payload, "style"), Get(designPlan, "analysis"),
                             Join([i \in 1..Len(palettes) |->
                                     "- " \o ToStr(Get(palettes[i], "color")) \o " & "
                                     \o ToStr(Get(palettes[i], "accent"))], "\n"))])

\* the rest of generateMorePalettes, from the provider's response on
GenerateMorePalettesReturn(response) ==
    LET text == Get(response, "text") IN
    IF ~CanGet(text) THEN TypeErrorRead(ToStr(text), "trim")
    ELSE JSONParse(Trim(text.s))

-----------------------------------------------------------------------------
(* JSON.stringify on one side of the wire and JSON.parse on the other: a   *)
(* member whose value is undefined is dropped from its object, an          *)
(* undefined array element becomes null.                                   *)

RECURSIVE JsonRoundTrip(_)
JsonRoundTrip(v) ==
    CASE v.t = "obj" ->
            LET kept == {k \in DOMAIN v.o : v.o[k] # Undefined}
            IN  Obj([k \in kept |-> JsonRoundTrip(v.o[k])])
      [] v.t = "arr" ->
            Arr([i \in 1..Len(v.a) |->
                    IF v.a[i] = Undefined THEN Null ELSE JsonRoundTrip(v.a[i])])
      [] OTHER -> v

-----------------------------------------------------------------------------
(* The inputs: what callers send and what the provider answers.            *)

Actions == {"generateDesignIdeas", "generateRedesignedImage", "generateMorePalettes"}
Methods == {"POST", "GET", "PUT"}
RoomTypes == {Str("living room"), Str("Exterior")}
\* other spellings of the exterior room type, and a room type that starts with it
ExteriorSpellings == {Str("exterior"), Str("EXTERIOR"), Str("Exterior Courtyard")}
Style == Str("modern")
Photo == Str("PHOTO")

Optional(S) == {Undefined} \cup S
Widths == Optional({Null} \cup {Num(n) : n \in (-1)..MaxDim})
Units == Optional({Str("ft"), Str("m"), Str("cm")})
Dimensions ==
    {Undefined, Null}
    \cup {Obj([width |-> w, length |-> l, unit |-> u]) : w \in Widths, l \in Widths, u \in Units}

NewColors == {Undefined, Palette("Plum", "Ivory"), Obj([color |-> Str("Plum")])}
\* design plans a caller can hold: results of generateDesignIdeas
HeldPlans == {FullPlan, PlanNoWallColor}
\* design plans anybody can post
PostedPlans == HeldPlans \cup {Undefined, PlanNoFurniture, PlanNoPalettes}

DesignIdeasArgs ==
    {Obj([base64Image |-> Photo, style |-> Style, dimensions |-> d, roomType |-> r]) :
        d \in Dimensions, r \in RoomTypes}
RedesignArgs(plans) ==
    {Obj([designPlan |-> p, style |-> Style, roomType |-> r, base64Image |-> Photo,
          newColors |-> c]) : p \in plans, r \in RoomTypes, c \in NewColors}
PalettesArgs(plans) ==
    {Obj([designPlan |-> p, style |-> Style]) : p \in plans}

\* what the three exported operations of the client facade hand to callApi
ClientCalls ==
    {[action |-> "generateDesignIdeas", payload |-> a] : a \in DesignIdeasArgs}
    \cup {[action |-> "generateRedesignedImage", payload |-> a] : a \in RedesignArgs(HeldPlans)}
    \cup {[action |-> "generateRedesignedImage",
             payload |-> Obj([designPlan |-> FullPlan, style |-> Style, roomType |-> r,
                              base64Image |-> Photo, newColors |-> Undefined])] :
             r \in ExteriorSpellings}
    \cup {[action |-> "generateMorePalettes", payload |-> a] : a \in PalettesArgs(HeldPlans)}

Envelope(action, payload) == Obj([action |-> action, payload |-> payload])

\* request bodies of callers that do not go through the facade
Unreadable == [t |-> "unreadable"]
RawBodies ==
    {Unreadable, Null, Num(7), EmptyObj}
    \cup {Envelope(Str(a), Undefined) : a \in Actions \cup {"deleteEverything"}}
    \cup {Envelope(Str("deleteEverything"), p) : p \in RedesignArgs({FullPlan})}
    \cup {Envelope(Str("generateRedesignedImage"), p) : p \in RedesignArgs(PostedPlans)}
    \cup {Envelope(Str("generateMorePalettes"), p) : p \in PalettesArgs(PostedPlans)}
    \cup {Envelope(Str("generateDesignIdeas"), EmptyObj)}

\* the provider's answers to the two JSON operations
TextResponses ==
    {Obj([text |-> t]) :
        t \in Optional({Str(s) : s \in ParsableTexts \cup UnparsableTexts \cup PaddedTexts})}

LongText ==
    "I cannot edit this photo. " \o "0123456789012345678901234567890123456789"
    \o "0123456789012345678901234567890123456789" \o "0123456789012345678901234567890123456789"
TextLengths == {0, 1} \cup ((SubstringLimit - 1)..(SubstringLimit + MaxTextOver))
ImageTexts == Optional({Str(SubSeq(LongText, 1, n)) : n \in TextLengths})

FinishReasons == Optional({Str("STOP"), Str("SAFETY"), Str("MAX_TOKENS")})
InlinePart(data) == Obj([inlineData |-> Obj([mimeType |-> Str("image/png"), data |-> Str(data)])])
Parts == {Obj([text |-> Str("Here it is")]), InlinePart(""), InlinePart("IMG1"), InlinePart("IMG2")}
PartLists == UNION {[1..n -> Parts] : n \in 0..MaxParts}
Contents ==
    {Undefined, Obj([role |-> Str("model")])}
    \cup {Obj([role |-> Str("model"), parts |-> Arr(ps)]) : ps \in PartLists}
Candidates == {Obj([finishReason |-> f, content |-> c]) : f \in FinishReasons, c \in Contents}
\* a second candidate: generateRedesignedImage reads candidates[0] alone
OtherCandidate ==
    Obj([finishReason |-> Str("STOP"),
         content |-> Obj([parts |-> Arr(<<InlinePart("IMG3")>>)])])

Ratings ==
    {Obj([category |-> Str("HARM_CATEGORY_HARASSMENT"), probability |-> Str("HIGH")]),
     Obj([category |-> Str("HARM_CATEGORY_DANGEROUS_CONTENT"), probability |-> Str("LOW")])}
RatingLists == UNION {[1..n -> Ratings] : n \in 0..MaxRatings}
PromptFeedbacks ==
    {Undefined}
    \cup {Obj([blockReason |-> b, safetyRatings |-> r]) :
             b \in Optional({Str("SAFETY"), Str("OTHER"), Str("safety")}),
             r \in Optional({Arr(rs) : rs \in RatingLists})}
BlockedFeedback ==
    Obj([blockReason |-> Str("SAFETY"), safetyRatings |-> Arr(<<>>)])

\* the provider's answers to the image operation: without a candidate the
\* prompt feedback says why; with one, the candidate and the text matter
ImageResponses ==
    {Obj([candidates |-> c, promptFeedback |-> f, text |-> Undefined]) :
        c \in {Undefined, Arr(<<>>)}, f \in PromptFeedbacks}
    \cup {Obj([candidates |-> Arr(cs), promptFeedback |-> f, text |-> t]) :
             cs \in {<<c>> : c \in Candidates} \cup {<<c, OtherCandidate>> : c \in Candidates},
             f \in {Undefined, BlockedFeedback}, t \in ImageTexts}

ProviderResponses(action) ==
    IF action = "generateRedesignedImage" THEN ImageResponses ELSE TextResponses

\* Responses of the platform in front of the handler: an HTML page for a
\* request that is not routed to it or that it did not answer in time, and a
\* JSON body that is not the handler's envelope
GatewayResponses ==
    {[kind |-> "response", status |-> 404, body |-> Unreadable],
     [kind |-> "response", status |-> 504, body |-> Unreadable],
     [kind |-> "response", status |-> 200, body |-> Unreadable],
     [kind |-> "response", status |-> 503, body |-> EmptyObj]}

\* what a rejected generateContent call throws: an Error, or any other value
ProviderErrors == {Throw(TRUE, "429 Too Many Requests"), Throw(FALSE, "")}

-----------------------------------------------------------------------------
(* The handler of src/api/generate.ts and callApi of the client facade.    *)

VARIABLES
    pc,               \* where the request in flight is
    via,              \* "client": sent by callApi; "raw": sent by another caller
    request,          \* the Request handed to handler: [method, body]
    bodyRead,         \* request.json() was called
    invoked,          \* the provider operation the switch called, or "none"
    providerRequest,  \* the argument of ai.models.generateContent, once called
    providerCalls,    \* calls of ai.models.generateContent for this request
    providerOutcome,  \* how the generateContent call ended
    handlerOutcome,   \* what the invoked provider operation returned or threw
    response,         \* the Response of handler
    responses,        \* Responses produced for this request
    fetchCalls,       \* calls of fetch by callApi for this client operation
    fetched,          \* the Response fetch resolved with, as callApi sees it
    clientOutcome     \* what callApi returned or threw

vars == <<pc, via, request, bodyRead, invoked, providerRequest, providerCalls,
          providerOutcome, handlerOutcome, response, responses, fetchCalls,
          fetched, clientOutcome>>

None == [kind |-> "none"]

Init ==
    /\ pc = "idle"
    /\ via = "none"
    /\ request = None
    /\ bodyRead = FALSE
    /\ invoked = "none"
    /\ providerRequest = None
    /\ providerCalls = 0
    /\ providerOutcome = None
    /\ handlerOutcome = None
    /\ response = None
    /\ responses = 0
    /\ fetchCalls = 0
    /\ fetched = None
    /\ clientOutcome = None

\* new Response(JSON.stringify(body), { status })
Response(status, body) == [kind |-> "response", status |-> status, body |-> JsonRoundTrip(body)]

MethodNotAllowed == Response(405, Obj([error |-> Str("Method not allowed")]))
InvalidAction == Response(400, Obj([error |-> Str("Invalid action")]))
\* the success response with an envelope around the result
SuccessWrapped(result) == Response(200, Obj([result |-> result]))

\* return new Response(JSON.stringify(result), { status: 200 })
Success(result) == Response(200, result)
\* the catch block answering with the bare message and status 400
ServerErrorBare(thrown) ==
    Response(400, Obj([message |-> Str(IF thrown.isError THEN thrown.message ELSE "")]))

\* the catch block of handler
ServerError(thrown) ==
    LET errorMessage == IF thrown.isError THEN thrown.message
                        ELSE "An unknown server error occurred"
    IN  Response(500, Obj([error |-> Str("Server error: " \o errorMessage)]))

\* the method test letting PUT through as well
IsPostOrPut(req) == req.method \in {"POST", "PUT"}

\* if (request.method !== 'POST')
IsPost(req) == req.method = "POST"

\* const { action, payload } = await request.json()
ReadBody(body) ==
    IF body = Unreadable THEN Throw(TRUE, "Unexpected token in JSON")
    ELSE IF ~CanGet(body)
    THEN Throw(TRUE, "Cannot destructure property 'action' of '(intermediate value)' as it is null.")
    ELSE Return([action |-> Get(body, "action"), payload |-> Get(body, "payload")])

\* the switch without its default case: an unknown action falls into the first case
RouteNoDefault(action) ==
    IF action.t = "str" /\ action.s \in Actions THEN action.s ELSE "generateDesignIdeas"

\* switch (action): the case taken, "default" when none matches
Route(action) ==
    IF action.t = "str" /\ action.s \in Actions THEN action.s ELSE "default"

\* the call made in the case taken, up to its await of generateContent
OperationCall(name, payload) ==
    CASE name = "generateDesignIdeas" -> GenerateDesignIdeasCall(payload)
      [] name = "generateRedesignedImage" -> GenerateRedesignedImageCall(payload)
      [] name = "generateMorePalettes" -> GenerateMorePalettesCall(payload)

\* the operation called, from the provider's response on
OperationReturn(name, resp) ==
    CASE name = "generateDesignIdeas" -> GenerateDesignIdeasReturn(resp)
      [] name = "generateRedesignedImage" -> GenerateRedesignedImageReturn(resp)
      [] name = "generateMorePalettes" -> GenerateMorePalettesReturn(resp)

\* callApi: fetch('/api/generate', { method: 'POST', body: JSON.stringify({ action, payload }) })
ClientCall ==
    /\ pc = "idle"
    /\ pc' = "received"
    /\ via' = "client"
    /\ \E c \in ClientCalls :
          request' = [method |-> "POST",
                      body |-> JsonRoundTrip(Envelope(Str(c.action), c.payload))]
    /\ fetchCalls' = fetchCalls + 1
    /\ UNCHANGED <<bodyRead, invoked, providerRequest, providerCalls, providerOutcome,
                   handlerOutcome, response, responses, fetched, clientOutcome>>

\* a request of any other caller
RawRequest ==
    /\ pc = "idle"
    /\ pc' = "received"
    /\ via' = "raw"
    /\ \E method \in Methods, body \in RawBodies :
          request' = [method |-> method, body |-> JsonRoundTrip(body)]
    /\ UNCHANGED <<bodyRead, invoked, providerRequest, providerCalls, providerOutcome,
                   handlerOutcome, response, responses, fetchCalls, fetched, clientOutcome>>

\* handler, up to await request.json()
HandlerEntry ==
    /\ pc = "received"
    /\ IF IsPost(request)
       THEN /\ pc' = "readingBody"
            /\ bodyRead' = TRUE
            /\ UNCHANGED <<response, responses>>
       ELSE /\ pc' = "responded"
            /\ response' = MethodNotAllowed
            /\ responses' = responses + 1
            /\ UNCHANGED bodyRead
    /\ UNCHANGED <<via, request, invoked, providerRequest, providerCalls, providerOutcome,
                   handlerOutcome, fetchCalls, fetched, clientOutcome>>

\* handler, from the body to the await of generateContent in the operation called
HandlerDispatch ==
    /\ pc = "readingBody"
    /\ LET read == ReadBody(request.body)
           name == Route(read.value.action)
           call == OperationCall(name, read.value.payload)
       IN  IF read.kind = "throw"
           THEN /\ pc' = "responded"
                /\ response' = ServerError(read)
                /\ responses' = responses + 1
                /\ UNCHANGED <<invoked, providerRequest, providerCalls, handlerOutcome>>
           ELSE IF name = "default"
           THEN /\ pc' = "responded"
                /\ response' = InvalidAction
                /\ responses' = responses + 1
                /\ UNCHANGED <<invoked, providerRequest, providerCalls, handlerOutcome>>
           ELSE IF call.kind = "throw"
           THEN /\ pc' = "responded"
                /\ invoked' = name
                /\ handlerOutcome' = call
                /\ response' = ServerError(call)
                /\ responses' = responses + 1
                /\ UNCHANGED <<providerRequest, providerCalls>>
           ELSE /\ pc' = "awaitProvider"
                /\ invoked' = name
                /\ providerRequest' = call.value
                /\ providerCalls' = providerCalls + 1
                /\ UNCHANGED <<handlerOutcome, response, responses>>
    /\ UNCHANGED <<via, request, bodyRead, providerOutcome, fetchCalls, fetched, clientOutcome>>

\* what handler does with the outcome of the operation it awaited
Respond(outcome) ==
    /\ pc' = "responded"
    /\ handlerOutcome' = outcome
    /\ response' = IF outcome.kind = "return" THEN Success(outcome.value)
                   ELSE ServerError(outcome)
    /\ responses' = responses + 1

\* generateContent resolves; the operation and the handler run to the end
ProviderResolves ==
    /\ pc = "awaitProvider"
    /\ \E resp \in ProviderResponses(invoked) :
          /\ providerOutcome' = Return(resp)
          /\ Respond(OperationReturn(invoked, resp))
    /\ UNCHANGED <<via, request, bodyRead, invoked, providerRequest, providerCalls,
                   fetchCalls, fetched, clientOutcome>>

\* a rejected generateContent call answered by calling the provider once more
ProviderRejectsRetry ==
    /\ pc = "awaitProvider"
    /\ IF providerCalls < 2
       THEN /\ providerCalls' = providerCalls + 1
            /\ UNCHANGED <<pc, providerOutcome, handlerOutcome, response, responses>>
       ELSE /\ \E thrown \in ProviderErrors :
                  /\ providerOutcome' = thrown
                  /\ Respond(thrown)
            /\ UNCHANGED providerCalls
    /\ UNCHANGED <<via, request, bodyRead, invoked, providerRequest,
                   fetchCalls, fetched, clientOutcome>>

\* generateContent rejects; no operation catches, the handler does
ProviderRejects ==
    /\ pc = "awaitProvider"
    /\ \E thrown \in ProviderErrors :
          /\ providerOutcome' = thrown
          /\ Respond(thrown)
    /\ UNCHANGED <<via, request, bodyRead, invoked, providerRequest, providerCalls,
                   fetchCalls, fetched, clientOutcome>>

SafetyMessage ==
    "The request was blocked by a safety filter. Please modify your prompt or image."

\* what response.json() throws on a body that is not JSON
NotJsonMessage == "Unexpected token '<', \"<!DOCTYPE \"... is not valid JSON"

\* callApi looking for 'safety' without regard to case
CallApiSettleAnyCase(resp) ==
    LET result == resp.body
        ok == resp.status \in 200..299
        error == Get(result, "error")
    IN  IF result = Unreadable THEN Throw(TRUE, NotJsonMessage)
        ELSE IF ok THEN Return(result)
        ELSE IF ~CanGet(result) THEN TypeErrorRead(ToStr(result), "error")
        ELSE IF Truthy(error) /\ Includes(ToLowerCase(ToStr(error)), "safety")
        THEN Throw(TRUE, SafetyMessage)
        ELSE Throw(TRUE, "An error occurred: "
                         \o (IF Truthy(error) THEN ToStr(error) ELSE "Unknown server error"))

\* callApi without the test of response.ok: the error envelope is returned
CallApiSettleUnchecked(resp) ==
    IF resp.body = Unreadable THEN Throw(TRUE, NotJsonMessage) ELSE Return(resp.body)

\* callApi, from the Response on
CallApiSettle(resp) ==
    LET result == resp.body
        ok == resp.status \in 200..299
        error == Get(result, "error")
    IN  IF result = Unreadable THEN Throw(TRUE, NotJsonMessage)
        ELSE IF ok THEN Return(result)
        ELSE IF ~CanGet(result) THEN TypeErrorRead(ToStr(result), "error")
        ELSE IF Truthy(error) /\ Includes(ToStr(error), "safety")
        THEN Throw(TRUE, SafetyMessage)
        ELSE Throw(TRUE, "An error occurred: "
                         \o (IF Truthy(error) THEN ToStr(error) ELSE "Unknown server error"))

\* callApi as written in src/api/generate.ts, from the Response on: the body
\* of a Response that is not ok is parsed with a fallback, and whatever is
\* thrown is thrown again behind 'Failed to communicate with the server.'
CallApiWithFallback(resp) ==
    LET ok == resp.status \in 200..299
        \* await response.json().catch(() => ({ error: '...' }))
        errorData == IF resp.body = Unreadable
                     THEN Obj([error |-> Str("Failed to parse error response from server.")])
                     ELSE resp.body
        tried ==
            IF ~ok
            THEN IF ~CanGet(errorData) THEN TypeErrorRead(ToStr(errorData), "error")
                 ELSE Throw(TRUE, ToStr(OrElse(Get(errorData, "error"),
                                               Str("Server responded with status: "
                                                   \o ToString(resp.status)))))
            ELSE IF resp.body = Unreadable THEN Throw(TRUE, NotJsonMessage)
            ELSE Return(resp.body)
    IN  IF tried.kind = "throw"
        THEN Throw(TRUE, "Failed to communicate with the server. "
                         \o (IF tried.isError THEN tried.message
                             ELSE "An unknown error occurred"))
        ELSE tried

ClientSettle ==
    /\ pc = "responded"
    /\ via = "client"
    /\ pc' = "settled"
    /\ fetched' = response
    /\ clientOutcome' = CallApiSettle(response)
    /\ UNCHANGED <<via, request, bodyRead, invoked, providerRequest, providerCalls,
                   providerOutcome, handlerOutcome, response, responses, fetchCalls>>

\* the platform answers the fetch of callApi in the handler's place: the
\* request is not routed to the handler, or the handler has not answered in
\* the time the platform gives it; callApi runs to its end on that Response
GatewayAnswers ==
    /\ pc \in {"received", "awaitProvider"}
    /\ via = "client"
    /\ pc' = "unanswered"
    /\ \E resp \in GatewayResponses :
          /\ fetched' = resp
          /\ clientOutcome' = CallApiSettle(resp)
    /\ UNCHANGED <<via, request, bodyRead, invoked, providerRequest, providerCalls,
                   providerOutcome, handlerOutcome, response, responses, fetchCalls>>

\* the request is over: nothing of it is kept
Forget ==
    /\ \/ pc = "settled"
       \/ pc = "unanswered"
       \/ pc = "responded" /\ via = "raw"
    /\ pc' = "idle"
    /\ via' = "none"
    /\ request' = None
    /\ bodyRead' = FALSE
    /\ invoked' = "none"
    /\ providerRequest' = None
    /\ providerCalls' = 0
    /\ providerOutcome' = None
    /\ handlerOutcome' = None
    /\ response' = None
    /\ responses' = 0
    /\ fetchCalls' = 0
    /\ fetched' = None
    /\ clientOutcome' = None

Next ==
    \/ ClientCall
    \/ RawRequest
    \/ HandlerEntry
    \/ HandlerDispatch
    \/ ProviderResolves
    \/ ProviderRejects
    \/ ClientSettle
    \/ GatewayAnswers
    \/ Forget

Spec == Init /\ [][Next]_vars

-----------------------------------------------------------------------------
(* What the properties below read off a state.                             *)

\* the provider resolved the generateContent call of operation `name`
Resolved(name) == invoked = name /\ providerOutcome.kind = "return"
\* the provider's response, once resolved
ProviderResponse == providerOutcome.value
\* the first candidate of a response, Undefined when it has none
FirstCandidate(resp) ==
    LET cs == Get(resp, "candidates")
    IN  IF cs.t = "arr" /\ Len(cs.a) > 0 THEN cs.a[1] ELSE Undefined
\* the content parts of a candidate, in list order
PartsOf(candidate) ==
    LET content == Get(candidate, "content")
    IN  IF content.t = "obj" /\ Get(content, "parts").t = "arr"
        THEN Get(content, "parts").a ELSE <<>>
\* a part that carries non-empty inline data
HasImage(part) ==
    /\ Get(part, "inlineData").t = "obj"
    /\ Get(Get(part, "inlineData"), "data").t = "str"
    /\ Get(Get(part, "inlineData"), "data").s # ""
\* a finish reason that is present and is not the normal stop
AbnormalFinish(candidate) ==
    /\ Get(candidate, "finishReason").t = "str"
    /\ Get(candidate, "finishReason").s \notin {"", "STOP"}
Failed(message) == handlerOutcome = [kind |-> "throw", isError |-> TRUE, message |-> message]

-----------------------------------------------------------------------------
(* C1 *)

C1_Case ==
    /\ Resolved("generateRedesignedImage")
    /\ FirstCandidate(ProviderResponse) # Undefined
    /\ AbnormalFinish(FirstCandidate(ProviderResponse))
    /\ \E i \in DOMAIN PartsOf(FirstCandidate(ProviderResponse)) :
          HasImage(PartsOf(FirstCandidate(ProviderResponse))[i])

\* C1: when the first candidate of the response has a finish reason that is
\* present and not 'STOP' and also a part with inline image data,
\* generateRedesignedImage throws the 'stopped unexpectedly' error naming the
\* finish reason, and does not return the image.
C1_FinishReasonBeforeImage ==
    C1_Case =>
        /\ handlerOutcome.kind = "throw"
        /\ Failed("Image generation stopped unexpectedly. Reason: "
                  \o Get(FirstCandidate(ProviderResponse), "finishReason").s)
        /\ response.status = 500

C1_Witness ==
    /\ C1_Case
    /\ pc = "responded"
    /\ Get(FirstCandidate(ProviderResponse), "finishReason") = Str("SAFETY")
    /\ HasImage(PartsOf(FirstCandidate(ProviderResponse))[1])
    /\ handlerOutcome.kind = "throw"

-----------------------------------------------------------------------------
(* C2 *)

C2_Case ==
    /\ Resolved("generateRedesignedImage")
    /\ FirstCandidate(ProviderResponse) = Undefined

C2_Feedback == Get(ProviderResponse, "promptFeedback")
C2_BlockReason ==
    IF C2_Feedback.t = "obj" THEN Get(C2_Feedback, "blockReason") ELSE Undefined
C2_Ratings ==
    IF C2_Feedback.t = "obj" /\ Get(C2_Feedback, "safetyRatings").t = "arr"
    THEN Get(C2_Feedback, "safetyRatings").a ELSE <<>>
\* "category: probability" of every rating, in order, separated by ", "
RECURSIVE C2_Pairs(_, _)
C2_Pairs(ratings, i) ==
    IF i > Len(ratings) THEN ""
    ELSE (IF i > 1 THEN ", " ELSE "")
         \o Get(ratings[i], "category").s \o ": " \o Get(ratings[i], "probability").s
         \o C2_Pairs(ratings, i + 1)

\* C2: for a response with no candidate generateRedesignedImage throws, and
\* the message is chosen by priority: the block reason verbatim when there is
\* one (whatever the safety ratings), else every 'category: probability' pair
\* in order when the ratings are not empty, else the generic message.
C2_NoCandidatePriority ==
    C2_Case =>
        /\ handlerOutcome.kind = "throw"
        /\ handlerOutcome.isError
        /\ response.status = 500
        /\ IF C2_BlockReason.t = "str"
           THEN /\ Failed("Request was blocked due to: " \o C2_BlockReason.s \o ".")
                /\ Includes(handlerOutcome.message, C2_BlockReason.s)
           ELSE IF Len(C2_Ratings) > 0
           THEN /\ Failed("Request may have been blocked by safety filters. Ratings: "
                          \o C2_Pairs(C2_Ratings, 1))
                /\ \A i \in DOMAIN C2_Ratings :
                      Includes(handlerOutcome.message,
                               Get(C2_Ratings[i], "category").s \o ": "
                               \o Get(C2_Ratings[i], "probability").s)
           ELSE Failed("The AI returned an empty response, which could be due to a "
                       \o "safety filter or a temporary issue.")

\* a block reason together with two safety ratings: the block reason wins
C2_Witness ==
    /\ C2_Case
    /\ pc = "responded"
    /\ C2_BlockReason = Str("OTHER")
    /\ Len(C2_Ratings) = 2
    /\ Failed("Request was blocked due to: OTHER.")

-----------------------------------------------------------------------------
(* C3 *)

C3_Text == Get(ProviderResponse, "text")
C3_Case ==
    /\ Resolved("generateRedesignedImage")
    /\ FirstCandidate(ProviderResponse) # Undefined
    /\ ~AbnormalFinish(FirstCandidate(ProviderResponse))
    /\ \A i \in DOMAIN PartsOf(FirstCandidate(ProviderResponse)) :
          ~HasImage(PartsOf(FirstCandidate(ProviderResponse))[i])
    /\ C3_Text.t = "str"
    /\ C3_Text.s # ""
C3_Head ==
    "The AI provided a text response instead of an image. This can happen if the "
    \o "request is not possible to fulfill. AI response: \""
C3_Tail == "...\""
\* what the message carries between its fixed head and its fixed tail
C3_Embedded ==
    SubSeq(handlerOutcome.message, Len(C3_Head) + 1,
           Len(handlerOutcome.message) - Len(C3_Tail))

\* C3: with a candidate that passes the finish-reason check, no part with
\* inline image data and a non-empty response text, generateRedesignedImage
\* throws the 'text response instead of an image' error, and the text the
\* message embeds is the prefix of the response text of length
\* min(100, length of the text): never more than 100 characters.
C3_TextPrefixAtMost100 ==
    C3_Case =>
        /\ handlerOutcome.kind = "throw"
        /\ handlerOutcome.isError
        /\ SubSeq(handlerOutcome.message, 1, Len(C3_Head)) = C3_Head
        /\ SubSeq(handlerOutcome.message, Len(handlerOutcome.message) - Len(C3_Tail) + 1,
                  Len(handlerOutcome.message)) = C3_Tail
        /\ Len(C3_Embedded) = (IF Len(C3_Text.s) < 100 THEN Len(C3_Text.s) ELSE 100)
        /\ C3_Embedded = SubSeq(C3_Text.s, 1, Len(C3_Embedded))
        /\ Len(C3_Embedded) <= 100

\* a response text longer than 100 characters was cut to its first 100
C3_Witness ==
    /\ C3_Case
    /\ pc = "responded"
    /\ Len(C3_Text.s) > 100
    /\ handlerOutcome.kind = "throw"
    /\ Len(C3_Embedded) = 100

-----------------------------------------------------------------------------
(* C4 *)

C4_Text == Get(ProviderResponse, "text")
C4_Case ==
    /\ Resolved("generateDesignIdeas")
    /\ C4_Text.t = "str"
    /\ JSONParse(Trim(C4_Text.s)).kind = "return"
C4_Parsed == JSONParse(Trim(C4_Text.s)).value
\* the parsed value lacks one of the three fields: absent or null
C4_Lacks(v) ==
    \E k \in {"furnitureSuggestions", "estimatedCost", "alternativePalettes"} :
        ~(v.t = "obj" /\ k \in DOMAIN v.o /\ v.o[k] # Null)

\* C4: for every provider text that parses as JSON, generateDesignIdeas
\* throws the missing-required-fields error whenever the parsed value lacks
\* furnitureSuggestions, estimatedCost or alternativePalettes, and returns
\* the parsed value only when all three are present.
C4_MissingFieldsRejected ==
    C4_Case =>
        /\ C4_Lacks(C4_Parsed) =>
              Failed("AI response is missing required fields like 'furnitureSuggestions', "
                     \o "'estimatedCost', or 'alternativePalettes'.")
        /\ handlerOutcome.kind = "return" =>
              ~C4_Lacks(C4_Parsed) /\ handlerOutcome.value = C4_Parsed

-----------------------------------------------------------------------------
(* C5 *)

\* the request in flight is a POST whose body reads as an envelope
PostWithEnvelope ==
    /\ request # None
    /\ request.method = "POST"
    /\ request.body # Unreadable
    /\ request.body # Null
RequestAction == Get(request.body, "action")
RecognizedAction ==
    RequestAction \in {Str("generateDesignIdeas"), Str("generateRedesignedImage"),
                       Str("generateMorePalettes")}
ErrorBody(message) == [t |-> "obj", o |-> [error |-> [t |-> "str", s |-> message]]]
Answered == pc \in {"responded", "settled"}

C5_Case == PostWithEnvelope /\ ~RecognizedAction

\* C5: a POST whose action is none of the three recognized names is answered
\* with status 400 and body {error: 'Invalid action'}, and at no point of
\* its handling is a provider operation invoked or the provider called.
C5_InvalidActionNoProviderCall ==
    C5_Case =>
        /\ providerCalls = 0
        /\ providerRequest = None
        /\ invoked = "none"
        /\ pc # "awaitProvider"
        /\ Answered => response = [kind |-> "response", status |-> 400,
                                   body |-> ErrorBody("Invalid action")]

C5_Witness ==
    /\ C5_Case
    /\ RequestAction = Str("deleteEverything")
    /\ Get(request.body, "payload") # Undefined
    /\ pc = "responded"
    /\ response.status = 400

-----------------------------------------------------------------------------
(* C6 *)

C6_Case == request # None /\ request.method # "POST"

\* C6: a request whose method is not POST is answered with status 405 and an
\* {error} body; its body is not read, no action is routed and the provider
\* is not called.
C6_MethodNotAllowed ==
    C6_Case =>
        /\ ~bodyRead
        /\ invoked = "none"
        /\ providerCalls = 0
        /\ pc \notin {"readingBody", "awaitProvider"}
        /\ Answered =>
              /\ response.status = 405
              /\ response.body.t = "obj"
              /\ DOMAIN response.body.o = {"error"}
              /\ response.body.o.error.t = "str"

C6_Witness ==
    /\ C6_Case
    /\ request.method = "GET"
    /\ request.body # Unreadable
    /\ pc = "responded"
    /\ response.status = 405

-----------------------------------------------------------------------------
(* C7 *)

\* what was thrown while the POST in flight was handled, None when nothing was:
\* by the reading of the body, or by the operation invoked (before, in or
\* after its provider call)
C7_Thrown ==
    IF ReadBody(request.body).kind = "throw" THEN ReadBody(request.body)
    ELSE IF handlerOutcome.kind = "throw" THEN handlerOutcome
    ELSE None

\* C7: whatever is thrown while a POST is handled is answered with status
\* 500 and body {error: 'Server error: ' + message}; every request ends with
\* exactly one response, of status 200, 400, 405 or 500, whose body is an
\* {error} object whenever the status is not 200.
C7_FailuresBecome500 ==
    /\ ~Answered => responses = 0 /\ response = None
    /\ Answered =>
          /\ responses = 1
          /\ response.status \in {200, 400, 405, 500}
          /\ response.status # 200 =>
                /\ response.body.t = "obj"
                /\ DOMAIN response.body.o = {"error"}
                /\ response.body.o.error.t = "str"
          /\ (request.method = "POST" /\ C7_Thrown # None) =>
                /\ response.status = 500
                /\ SubSeq(response.body.o.error.s, 1, 14) = "Server error: "
                /\ C7_Thrown.isError =>
                      response.body = ErrorBody("Server error: " \o C7_Thrown.message)
          /\ response.status = 500 => request.method = "POST" /\ C7_Thrown # None

\* a provider text that does not parse was answered with the 500 envelope
C7_Witness ==
    /\ Answered
    /\ request.method = "POST"
    /\ response.status = 500
    /\ invoked = "generateDesignIdeas"
    /\ providerOutcome.kind = "return"
    /\ handlerOutcome.kind = "throw"
    /\ response.body = ErrorBody("Server error: Unexpected end of JSON input")

-----------------------------------------------------------------------------
(* C8 *)

C8_Case ==
    /\ PostWithEnvelope
    /\ RecognizedAction
    /\ handlerOutcome.kind = "return"

\* C8: when the operation of a POST with a recognized action returns a value,
\* the response has status 200 and its body is that value, with no wrapper
\* around it, and the operation that ran is the one the action names.
C8_SuccessBodyIsResult ==
    C8_Case =>
        /\ Answered
        /\ response.status = 200
        /\ response.body = handlerOutcome.value
        /\ invoked = RequestAction.s
        /\ handlerOutcome = OperationReturn(RequestAction.s, ProviderResponse)
        /\ providerRequest = OperationCall(RequestAction.s, Get(request.body, "payload")).value

C8_Witness ==
    /\ C8_Case
    /\ RequestAction = Str("generateRedesignedImage")
    /\ response.status = 200
    /\ response.body = Str("IMG2")

-----------------------------------------------------------------------------
(* C9 *)

\* the operation named by the action of the POST in flight gets as far as its
\* call of generateContent: it throws nothing while it builds its prompt
C9_ReachesProvider ==
    OperationCall(RequestAction.s, Get(request.body, "payload")).kind = "return"

\* C9 as claimed: every dispatcher invocation with a recognized action makes
\* exactly one provider call, whatever the outcome.
C9_ExactlyOneProviderCall ==
    /\ via = "client" => fetchCalls = 1
    /\ providerCalls <= 1
    /\ (PostWithEnvelope /\ RecognizedAction /\ Answered) =>
          providerCalls = 1 /\ providerOutcome # None

\* C9, amended: a client facade operation makes exactly one call to the
\* dispatcher; a dispatcher invocation with a recognized action makes at most
\* one provider call: exactly one when the operation reaches its call of
\* generateContent, none when it throws before it, which is answered with the
\* 500 envelope.  No outcome of the provider call is followed by a second
\* call, and the response is produced only once the call resolved or rejected.
C9_AtMostOneProviderCall ==
    /\ fetchCalls = (IF via = "client" THEN 1 ELSE 0)
    /\ providerCalls <= 1
    /\ providerCalls = 1 <=> providerRequest # None
    /\ providerOutcome # None => providerCalls = 1
    /\ pc = "awaitProvider" =>
          providerCalls = 1 /\ providerOutcome = None /\ response = None
    /\ (response # None /\ providerCalls = 1) => providerOutcome # None
    /\ (PostWithEnvelope /\ RecognizedAction /\ Answered) =>
          IF C9_ReachesProvider
          THEN providerCalls = 1 /\ providerOutcome # None
          ELSE /\ providerCalls = 0
               /\ handlerOutcome.kind = "throw"
               /\ response.status = 500

\* a facade operation whose provider call was rejected: one call, no retry
C9_Witness ==
    /\ via = "client"
    /\ pc = "settled"
    /\ fetchCalls = 1
    /\ providerCalls = 1
    /\ providerOutcome.kind = "throw"
    /\ response.status = 500

\* a facade operation that threw before its provider call: no call at all
C9_WitnessNoCall ==
    /\ via = "client"
    /\ pc = "settled"
    /\ RecognizedAction
    /\ providerCalls = 0
    /\ response.status = 500

-----------------------------------------------------------------------------
(* C10 *)

\* generateDesignIdeas built its prompt for the request in flight and handed
\* it to the provider
C10_Case == pc = "awaitProvider" /\ invoked = "generateDesignIdeas"
C10_Dimensions == Get(Get(request.body, "payload"), "dimensions")
C10_Width == Get(C10_Dimensions, "width")
C10_Length == Get(C10_Dimensions, "length")
\* the dimension sentence is part of the prompt
C10_HasSentence ==
    Includes(providerRequest.text, " The user has specified the room is approximately ")
\* the dimension sentence for a width, a length and a unit name
C10_Sentence(w, l, u) ==
    " The user has specified the room is approximately " \o ToString(w) \o " " \o u
    \o " wide by " \o ToString(l) \o " " \o u \o " long. Please ensure your furniture "
    \o "suggestions and layout advice are appropriately scaled for a room of this size "
    \o "and explicitly mention this in your analysis."
C10_UnitName == IF Get(C10_Dimensions, "unit") = Str("ft") THEN "feet" ELSE "meters"
C10_UnitRendered ==
    C10_HasSentence =>
        /\ Includes(providerRequest.text,
                    C10_Sentence(C10_Width.n, C10_Length.n, C10_UnitName))
        /\ ~Includes(providerRequest.text,
                     IF C10_UnitName = "feet" THEN " meters " ELSE " feet ")

\* C10 as claimed: the dimension sentence is part of the prompt if and only
\* if the dimensions object is supplied with both width and length present,
\* for every numeric value of width and length.
C10_SentenceIffPresent ==
    C10_Case =>
        /\ C10_HasSentence <=>
              /\ C10_Dimensions.t = "obj"
              /\ C10_Width.t = "num"
              /\ C10_Length.t = "num"
        /\ C10_UnitRendered

\* C10, amended: the dimension sentence is part of the prompt if and only if
\* the dimensions object is supplied with both width and length truthy, for a
\* number: present and not zero; when it is, the unit is rendered as 'feet' if unit is 'ft' and
\* as 'meters' for every other unit value, an absent one included.
C10_SentenceIffNonZero ==
    C10_Case =>
        /\ C10_HasSentence <=>
              /\ C10_Dimensions.t = "obj"
              /\ C10_Width.t = "num" /\ C10_Width.n # 0
              /\ C10_Length.t = "num" /\ C10_Length.n # 0
        /\ C10_UnitRendered

\* the sentence in meters for a unit that is neither 'ft' nor 'm'
C10_Witness ==
    /\ C10_Case
    /\ Get(C10_Dimensions, "unit") = Str("cm")
    /\ C10_HasSentence
    /\ Includes(providerRequest.text, "approximately 2 meters wide by 1 meters long.")

\* no sentence for a width of zero
C10_WitnessZero ==
    /\ C10_Case
    /\ C10_Width = Num(0)
    /\ C10_Length = Num(2)
    /\ ~C10_HasSentence


-----------------------------------------------------------------------------
(* C11 *)

\* the handler called generateRedesignedImage, which built its prompt for the
\* request in flight and handed it to the provider
C11_Case == pc = "awaitProvider" /\ invoked = "generateRedesignedImage"
C11_Payload == Get(request.body, "payload")
C11_RoomType == Get(C11_Payload, "roomType")
\* the room type, compared without regard to case, is 'exterior'
C11_IsExterior ==
    C11_RoomType.t = "str" /\ ToLowerCase(C11_RoomType.s) = "exterior"
\* a prompt of the exterior template: landscaping and decor in place of
\* furniture, the architecture and roofline to be preserved
C11_ExteriorTemplate(text) ==
    /\ Includes(text, "exterior")
    /\ Includes(text, "Landscaping & Decor")
    /\ Includes(text, "roofline")
\* a prompt of the room template: furniture, the room's structure preserved
C11_RoomTemplate(text) ==
    /\ Includes(text, "Furniture:")
    /\ Includes(text, "room")
    /\ ~Includes(text, "Landscaping & Decor")
    /\ ~Includes(text, "roofline")

\* the two templates of the variant on the caller's side are told apart by
\* these marks, for every spelling of the room type
C11_MarksTellTemplatesApart ==
    \A r \in RoomTypes \cup ExteriorSpellings :
        LET text == TextPrompt(FullPlan, Style, r, Undefined)
        IN  IF IsExterior(r)
            THEN C11_ExteriorTemplate(text) /\ ~C11_RoomTemplate(text)
            ELSE C11_RoomTemplate(text) /\ ~C11_ExteriorTemplate(text)

\* C11 as claimed: the prompt generateRedesignedImage hands to the provider
\* when the handler serves action 'generateRedesignedImage' is built from the
\* exterior template exactly when roomType, compared case-insensitively,
\* equals 'exterior', and from the room template otherwise.
C11_ExteriorTemplateIffExterior ==
    C11_Case =>
        IF C11_IsExterior
        THEN C11_ExteriorTemplate(providerRequest.text)
        ELSE C11_RoomTemplate(providerRequest.text)

\* what the handler's operation does: the room template for every room type,
\* the room type written into its first line
C11_RoomTemplateAlways ==
    C11_Case =>
        /\ C11_RoomTemplate(providerRequest.text)
        /\ Includes(providerRequest.text,
                    "Redesign this " \o ToStr(C11_RoomType) \o " in a photorealistic ")

\* an exterior request served from the room template
C11_ExteriorServedAsRoom ==
    /\ C11_Case
    /\ C11_RoomType = Str("EXTERIOR")
    /\ C11_RoomTemplate(providerRequest.text)

-----------------------------------------------------------------------------
(* C12 *)

\* a POST with action 'generateMorePalettes' and a design plan as
\* generateDesignIdeas returns it, answered with status 200
C12_Case ==
    /\ Answered
    /\ PostWithEnvelope
    /\ RequestAction = Str("generateMorePalettes")
    /\ Get(Get(request.body, "payload"), "designPlan") = FullPlan
    /\ response.status = 200
\* a color palette: an object carrying color and accent
C12_IsPalette(v) ==
    /\ v.t = "obj"
    /\ Get(v, "color").t = "str"
    /\ Get(v, "accent").t = "str"
\* a sequence of exactly 3 color palettes
C12_ThreePalettes(v) ==
    /\ v.t = "arr"
    /\ Len(v.a) = 3
    /\ \A i \in 1..Len(v.a) : C12_IsPalette(v.a[i])

\* C12 as claimed: a status-200 response to a POST with action
\* 'generateMorePalettes' and a valid design plan has a body that is a
\* sequence of exactly 3 objects each carrying color and accent, whatever
\* JSON text the provider answered with.
C12_BodyIsThreePalettes ==
    C12_Case => C12_ThreePalettes(response.body)

\* what the operation does: the body is the value the provider's text parses
\* to, whatever its shape
C12_BodyIsParsedText ==
    C12_Case =>
        /\ Resolved("generateMorePalettes")
        /\ response.body
              = JsonRoundTrip(JSONParse(Trim(Get(ProviderResponse, "text").s)).value)

\* two palettes from the provider, answered with status 200 and two palettes
C12_TwoPalettesAnswered ==
    /\ C12_Case
    /\ Get(ProviderResponse, "text") = Str(TwoPalettesText)
    /\ response.body = TwoPalettes

-----------------------------------------------------------------------------
(* C13 *)

\* a Response that is not a success and whose body is JSON
C13_NonSuccess(resp) ==
    /\ resp # None
    /\ resp.status \notin 200..299
    /\ resp.body # Unreadable
\* the error text of a Response body, "" when it carries none
C13_ErrorText(resp) ==
    IF Get(resp.body, "error").t = "str" THEN Get(resp.body, "error").s ELSE ""
\* the message callApi is to fail with on a Response that is not a success
C13_Message(resp) ==
    IF Includes(C13_ErrorText(resp), "safety")
    THEN "The request was blocked by a safety filter. Please modify your prompt or image."
    ELSE IF C13_ErrorText(resp) # ""
    THEN "An error occurred: " \o C13_ErrorText(resp)
    ELSE "An error occurred: Unknown server error"
C13_Fails(outcome, resp) ==
    outcome = [kind |-> "throw", isError |-> TRUE, message |-> C13_Message(resp)]

\* C13: on every Response that is not a success, callApi throws an Error and
\* returns no value; the message is the fixed safety-filter message when the
\* error text of the body contains 'safety', and otherwise 'An error
\* occurred: ' followed by the error text, or by 'Unknown server error' when
\* the body carries no error text. Checked on every Response the handler
\* produces, for the facade and for any other caller, and on what callApi
\* ended with.
C13_ErrorRewritten ==
    /\ (Answered /\ C13_NonSuccess(response)) =>
          C13_Fails(CallApiSettle(response), response)
    /\ (pc \in {"settled", "unanswered"} /\ C13_NonSuccess(fetched)) =>
          C13_Fails(clientOutcome, fetched)
    /\ (pc = "settled" /\ ~C13_NonSuccess(fetched)) =>
          clientOutcome = [kind |-> "return", value |-> response.body]

\* a generation stopped for SAFETY, in capitals: the message is passed on
\* behind the generic prefix
C13_Witness ==
    /\ pc = "settled"
    /\ response.status = 500
    /\ clientOutcome.kind = "throw"
    /\ clientOutcome.message
          = "An error occurred: Server error: Image generation stopped unexpectedly. "
            \o "Reason: SAFETY"

\* a body without error text
C13_WitnessUnknown ==
    /\ pc = "unanswered"
    /\ fetched.status = 503
    /\ clientOutcome.kind = "throw"
    /\ clientOutcome.message = "An error occurred: Unknown server error"

-----------------------------------------------------------------------------
(* C14 *)

\* callApi of the client facade ended on a Response that is not a success
\* and whose body is not JSON
C14_Case ==
    /\ pc = "unanswered"
    /\ fetched.status \notin 200..299
    /\ fetched.body = Unreadable
\* an error built from the fallback message
C14_FromFallback(outcome) ==
    /\ outcome.kind = "throw"
    /\ outcome.isError
    /\ Includes(outcome.message, "ailed to parse error response")

\* C14 as claimed: when the transport outcome is not a success and its body
\* cannot be parsed as JSON, callApi of the client facade fails with an error
\* built from the fallback message 'failed to parse error response', not with
\* the parse failure itself.
C14_FallbackOnUnparsableBody ==
    C14_Case =>
        /\ C14_FromFallback(clientOutcome)
        /\ ~Includes(clientOutcome.message, NotJsonMessage)

\* what callApi of the client facade does: the failure of response.json() is
\* what it fails with, whatever the status
C14_ParseFailureThrown ==
    (pc = "unanswered" /\ fetched.body = Unreadable) =>
        clientOutcome = [kind |-> "throw", isError |-> TRUE, message |-> NotJsonMessage]

\* callApi as written in src/api/generate.ts has the fallback, behind
\* 'Failed to communicate with the server.'
C14_OtherCallApiFallsBack ==
    C14_Case =>
        /\ C14_FromFallback(CallApiWithFallback(fetched))
        /\ CallApiWithFallback(fetched).message
              = "Failed to communicate with the server. "
                \o "Failed to parse error response from server."

\* a 504 page of the platform while the provider is awaited, and the parse
\* failure as the error of callApi
C14_ParseFailureReached ==
    /\ C14_Case
    /\ fetched.status = 504
    /\ providerCalls = 1
    /\ clientOutcome.message = NotJsonMessage

-----------------------------------------------------------------------------
(* C15 *)

\* generateRedesignedImage got a response whose first candidate has no finish
\* reason, or the finish reason 'STOP'
C15_Case ==
    /\ Resolved("generateRedesignedImage")
    /\ FirstCandidate(ProviderResponse) # Undefined
    /\ ~AbnormalFinish(FirstCandidate(ProviderResponse))
C15_Parts == PartsOf(FirstCandidate(ProviderResponse))
\* the positions of the parts that carry non-empty inline data
C15_Images == {i \in DOMAIN C15_Parts : HasImage(C15_Parts[i])}
C15_First == CHOOSE i \in C15_Images : \A j \in C15_Images : i <= j
C15_Text == Get(ProviderResponse, "text")
C15_HasText == C15_Text.t = "str" /\ C15_Text.s # ""

\* C15: with a first candidate that has no finish reason or the finish reason
\* 'STOP', generateRedesignedImage returns the inline data of the first part,
\* in list order, that carries non-empty inline data, whatever comes before
\* or after it and whether or not the response has a text; it fails only when
\* no part carries non-empty inline data: with the text-response error when
\* the response text is non-empty, with the no-image error otherwise.
C15_FirstInlineDataReturned ==
    C15_Case =>
        IF C15_Images # {}
        THEN /\ handlerOutcome
                   = [kind |-> "return",
                      value |-> Get(Get(C15_Parts[C15_First], "inlineData"), "data")]
             /\ response.status = 200
             /\ response.body = handlerOutcome.value
        ELSE /\ handlerOutcome.kind = "throw"
             /\ response.status = 500
             /\ IF C15_HasText
                THEN SubSeq(handlerOutcome.message, 1, 68)
                        = "The AI provided a text response instead of an image. "
                          \o "This can happen"
                ELSE Failed("The AI did not return a redesigned image. The response "
                            \o "was valid but contained no image data.")

\* a part with empty inline data is skipped and the image after it returned,
\* next to a response text
C15_Witness ==
    /\ C15_Case
    /\ Len(C15_Parts) = 2
    /\ Get(Get(C15_Parts[1], "inlineData"), "data") = Str("")
    /\ HasImage(C15_Parts[2])
    /\ C15_HasText
    /\ handlerOutcome = [kind |-> "return", value |-> Str("IMG2")]

\* of two images the first is returned
C15_WitnessFirstOfTwo ==
    /\ C15_Case
    /\ C15_Images = {1, 2}
    /\ handlerOutcome = [kind |-> "return", value |-> Str("IMG2")]
    /\ Get(Get(C15_Parts[2], "inlineData"), "data") = Str("IMG1")

-----------------------------------------------------------------------------
(* C16 *)

\* a client operation ended whose generateRedesignedImage got a response
\* with zero candidates
C16_Case ==
    /\ pc = "settled"
    /\ Resolved("generateRedesignedImage")
    /\ FirstCandidate(ProviderResponse) = Undefined
C16_BlockReason ==
    IF Get(ProviderResponse, "promptFeedback").t = "obj"
    THEN Get(Get(ProviderResponse, "promptFeedback"), "blockReason")
    ELSE Undefined
C16_Blocked == C16_BlockReason.t = "str" /\ C16_BlockReason.s # ""
C16_Raised(message) ==
    clientOutcome = [kind |-> "throw", isError |-> TRUE, message |-> message]
C16_SafetyFilterMessage ==
    "The request was blocked by a safety filter. Please modify your prompt or image."

\* C16: when the provider answers generateRedesignedImage with zero
\* candidates, the error callApi raises is the fixed safety-filter message if
\* the response has no block reason (with safety ratings or without); with a
\* block reason it is the fixed safety-filter message only if the block
\* reason itself contains 'safety' in lower case, and otherwise 'An error
\* occurred: Server error: Request was blocked due to: <blockReason>.'.
C16_ZeroCandidatesEndToEnd ==
    C16_Case =>
        /\ response.status = 500
        /\ IF ~C16_Blocked THEN C16_Raised(C16_SafetyFilterMessage)
           ELSE IF Includes(C16_BlockReason.s, "safety")
           THEN C16_Raised(C16_SafetyFilterMessage)
           ELSE C16_Raised("An error occurred: Server error: Request was blocked due to: "
                           \o C16_BlockReason.s \o ".")

\* a request blocked for SAFETY, in capitals, with safety ratings at hand: the
\* block reason is passed on behind the generic prefix
C16_Witness ==
    /\ C16_Case
    /\ C16_BlockReason = Str("SAFETY")
    /\ Get(Get(ProviderResponse, "promptFeedback"), "safetyRatings").t = "arr"
    /\ Len(Get(Get(ProviderResponse, "promptFeedback"), "safetyRatings").a) > 0
    /\ C16_Raised("An error occurred: Server error: Request was blocked due to: SAFETY.")

\* no block reason, with safety ratings and without them
C16_WitnessRatings ==
    /\ C16_Case
    /\ ~C16_Blocked
    /\ SubSeq(handlerOutcome.message, 1, 25) = "Request may have been blo"
    /\ C16_Raised(C16_SafetyFilterMessage)
C16_WitnessEmpty ==
    /\ C16_Case
    /\ Get(ProviderResponse, "promptFeedback") = Undefined
    /\ SubSeq(handlerOutcome.message, 1, 25) = "The AI returned an empty "
    /\ C16_Raised(C16_SafetyFilterMessage)
\* a block reason that contains 'safety' in lower case
C16_WitnessLowerCase ==
    /\ C16_Case
    /\ C16_BlockReason = Str("safety")
    /\ C16_Raised(C16_SafetyFilterMessage)
=============================================================================
